---- MODULE Spec2Model ----
(***************************************************************************)
(* A model of the Clay webhook batch publisher, push_to_clay, of           *)
(* src/utils/clay_webhook.py: one call of the function, from its guards    *)
(* over the batch split to the POST / sleep loop and the returned count.   *)
(***************************************************************************)
EXTENDS Integers, Sequences, FiniteSets, TLC

\* ------------------------------------------------------------------ bounds
\* Longest records list a call is given.
MaxLen == 3
\* Largest positive batch_size tried besides the default BATCH_SIZE.
MaxBatch == 3
\* Length of the one longer list given to a call that leaves batch_size and
\* batch_delay to their defaults.
ScenarioLen == 10

\* --------------------------------------------------------- module constants
BATCH_SIZE == 100
\* BATCH_DELAY = 0.5 seconds, in milliseconds.
BATCH_DELAY == 500
\* REQUEST_TIMEOUT, in seconds.
REQUEST_TIMEOUT == 30

\* ------------------------------------------------------------------ inputs
\* Records are opaque values to the publisher; two distinct ones let an order
\* or a duplicate show.
RecordValues == {"r1", "r2"}

RECURSIVE SeqsUpTo(_, _)
SeqsUpTo(S, n) ==
    IF n = 0 THEN {<<>>}
    ELSE LET shorter == SeqsUpTo(S, n - 1)
         IN  shorter \cup {Append(s, x) : s \in {t \in shorter : Len(t) = n - 1}, x \in S}

RecordLists == SeqsUpTo(RecordValues, MaxLen)

\* A longer list, for a call with the default batch size.
ScenarioRecords == [i \in 1 .. ScenarioLen |-> IF i % 2 = 1 THEN "r1" ELSE "r2"]

\* webhook_url: the empty string, Python's None ("None"), or a URL.
WebhookUrls == {"", "None", "http://x"}

\* batch_size: negative, zero, 1..MaxBatch, and the default.
BatchSizes == (-1 .. MaxBatch) \cup {BATCH_SIZE}

\* batch_delay, in milliseconds: none, or the default.
BatchDelays == {0, BATCH_DELAY}

\* What one requests.post call can end in: a response with a status code, or
\* an exception of the requests library raised by the transport. A 3xx status
\* reaches the caller when the response is no redirect to follow (304, or no
\* Location header).
StatusCodes == {200, 299, 304, 400, 599}
TransportErrors == {"ConnectionError", "Timeout"}
Outcomes ==
    {[exc |-> "none", status |-> s] : s \in StatusCodes}
        \cup {[exc |-> e, status |-> 0] : e \in TransportErrors}

\* Mutant of DefaultArgs: a default batch size of 5.
DefaultArgs_Small == [batch_size |-> BATCH_SIZE \div 20, batch_delay |-> BATCH_DELAY]

\* The values batch_size and batch_delay are bound to when the caller passes
\* neither.
DefaultArgs == [batch_size |-> BATCH_SIZE, batch_delay |-> BATCH_DELAY]

\* ------------------------------------------------------- Python primitives
Min(a, b) == IF a < b THEN a ELSE b
Max(a, b) == IF a > b THEN a ELSE b

\* Mutant of FalsyList: `records is None`, which an empty list is not.
FalsyList_NoneOnly(l) == FALSE

\* `not records`: an empty list is falsy.
FalsyList(l) == Len(l) = 0

\* Mutant of FalsyStr: `webhook_url is None`, which the empty string is not.
FalsyStr_NoneOnly(s) == s = "None"

\* `not webhook_url`: None and the empty string are falsy.
FalsyStr(s) == s \in {"", "None"}

\* range(start, stop, step) raises ValueError for step = 0.
RangeRaises(step) == step = 0

\* Mutant of PyRange: the count rounded down, which drops a short last value.
PyRange_Floor(start, stop, step) ==
    LET n == IF step > 0
             THEN IF stop > start THEN (stop - start) \div step ELSE 0
             ELSE IF start > stop THEN (start - stop) \div (-step) ELSE 0
    IN  [k \in 1 .. n |-> start + (k - 1) * step]

\* Mutant of PyRange: range(start, stop, abs(step)), which counts upward for a
\* negative step too.
PyRange_AbsStep(start, stop, step) ==
    LET a == IF step < 0 THEN -step ELSE step
        n == IF stop > start THEN (stop - start + a - 1) \div a ELSE 0
    IN  [k \in 1 .. n |-> start + (k - 1) * a]

\* range(start, stop, step) for step # 0, as the sequence of its values.
PyRange(start, stop, step) ==
    LET n == IF step > 0
             THEN IF stop > start THEN (stop - start + step - 1) \div step ELSE 0
             ELSE IF start > stop THEN (start - stop - step - 1) \div (-step) ELSE 0
    IN  [k \in 1 .. n |-> start + (k - 1) * step]

\* A slice bound, as Python normalises it against a list of length n.
SliceIndex(i, n) == IF i < 0 THEN Max(i + n, 0) ELSE Min(i, n)

\* Mutant of Slice: the upper bound taken as inclusive.
Slice_Inclusive(s, lo, hi) ==
    SubSeq(s, SliceIndex(lo, Len(s)) + 1, SliceIndex(hi + 1, Len(s)))

\* s[lo:hi]
Slice(s, lo, hi) == SubSeq(s, SliceIndex(lo, Len(s)) + 1, SliceIndex(hi, Len(s)))

\* Mutant of Batches: range(0, total_records - 1, batch_size), which loses a
\* last batch of one record.
Batches_StopEarly(recs, size) ==
    LET r == PyRange(0, Len(recs) - 1, size)
    IN  [k \in DOMAIN r |-> Slice(recs, r[k], r[k] + size)]

\* [records[i:i + batch_size] for i in range(0, total_records, batch_size)]
Batches(recs, size) ==
    LET r == PyRange(0, Len(recs), size)
    IN  [k \in DOMAIN r |-> Slice(recs, r[k], r[k] + size)]

\* response.raise_for_status() raises HTTPError for a 4xx or 5xx status only.
RaiseForStatus(status) == 400 <= status /\ status < 600

\* The exception the try block of one batch ends in, "none" when it completes.
Raised(o) ==
    IF o.exc # "none" THEN o.exc
    ELSE IF RaiseForStatus(o.status) THEN "HTTPError"
    ELSE "none"

\* Mutant of Caught: `except requests.exceptions.HTTPError`.
Caught_HTTPErrorOnly(e) == e = "HTTPError"

\* Mutant of Caught: `except (HTTPError, ConnectionError)`, which lets a
\* timeout through.
Caught_NoTimeout(e) == e \in {"HTTPError", "ConnectionError"}

\* except requests.exceptions.RequestException: HTTPError, ConnectionError and
\* Timeout are all subclasses of it.
Caught(e) == e \in {"HTTPError", "ConnectionError", "Timeout"}

\* Mutant of CountAfter: one per successful batch instead of its length.
CountAfter_PerBatch(count, batch, o) ==
    IF o.exc = "none" /\ ~(400 <= o.status /\ o.status < 600) THEN count + 1 ELSE count

\* Mutant of CountAfter: `successful_count += BATCH_SIZE`, the nominal batch
\* size instead of the batch's length.
CountAfter_Nominal(count, batch, o) ==
    IF o.exc = "none" /\ ~(400 <= o.status /\ o.status < 600)
    THEN count + BATCH_SIZE
    ELSE count

\* successful_count after the try block of one batch.
CountAfter(count, batch, o) ==
    IF Raised(o) = "none" THEN count + Len(batch) ELSE count

\* Mutant of Request: the batch is passed as data= instead of json=, so it
\* goes out form-encoded.
Request_FormEncoded(url, batch, num) ==
    [method |-> "POST", url |-> url, json |-> batch, timeout |-> REQUEST_TIMEOUT,
     content_type |-> "application/x-www-form-urlencoded", batch_num |-> num]

\* The request one requests.post call issues.
Request(url, batch, num) ==
    [method |-> "POST", url |-> url, json |-> batch, timeout |-> REQUEST_TIMEOUT,
     content_type |-> "application/json", batch_num |-> num]

\* ------------------------------------------------------------------- state
VARIABLES
    records,           \* argument
    webhook_url,       \* argument
    batch_size,        \* argument
    batch_delay,       \* argument
    defaulted,         \* TRUE when the caller passed no batch_size and no batch_delay
    pc,                \* "not_started", "loop", "sending", "sleeping", "done", "raised"
    total_records,     \* local
    batches,           \* local
    batch_num,         \* index of the batch last taken by the for loop, 0 before
    successful_count,  \* local
    posts,             \* the requests issued so far, in order
    outcomes,          \* how each completed POST ended, in order
    sleeps,            \* the time.sleep calls made so far, in order
    result,            \* the returned value, meaningful when pc = "done"
    raised             \* the exception the call ended in, "none" otherwise

VARIABLES
    scraper,           \* the scraper module that runs, "none" for a bare push_to_clay call
    limit,             \* the limit argument / SCRAPE_LIMIT
    phase,             \* the position of the scraper's code
    page,              \* page / page_num, the page requested next
    product,           \* index into DYNAMICS_PRODUCTS (Microsoft), else 0
    discovered_urls,   \* the set discovered_urls (NetSuite, Acumatica, HubSpot)
    all_apps,          \* the keys of the dict all_apps in insertion order (Microsoft)
    all_urls,          \* the list all_urls (Shopify)
    page_requests,     \* the page requests made so far, in order, each with the
                       \* exception it ended in and the new URLs (Shopify: the
                       \* URLs) it gave
    urls,              \* the list the discovery returned
    total_count,       \* total_count of the page read last (Microsoft)
    app_cards,         \* app_cards of the page read last (scrape_via_html)
    html_records,      \* the list records of scrape_via_html, as app names
    server,            \* how the Microsoft API answers: [honest, catalog]
    clay_webhook_url,  \* os.environ.get("CLAY_WEBHOOK_URL"), "None" when unset
    main_records,      \* the list records of main, each record as its app_url
    attempts,          \* the scrape calls of main's loop so far and how each ended
    saved_file,        \* what save_results wrote: [written, records]
    push_calls         \* the number of calls of push_to_clay main has made

discVars == <<scraper, limit, phase, page, product, discovered_urls, all_apps,
              all_urls, page_requests, urls, total_count, app_cards, html_records,
              server>>

mainVars == <<clay_webhook_url, main_records, attempts, saved_file, push_calls>>

scraperVars == <<discVars, mainVars>>

\* main has not got past discovery.
MainIdle ==
    /\ clay_webhook_url = "None"
    /\ main_records = <<>>
    /\ attempts = <<>>
    /\ saved_file = [written |-> FALSE, records |-> <<>>]
    /\ push_calls = 0

\* No scraper runs: the state of these variables in a bare push_to_clay call.
ScraperIdle ==
    /\ scraper = "none"
    /\ limit = 0
    /\ phase = "idle"
    /\ page = 0
    /\ product = 0
    /\ discovered_urls = {}
    /\ all_apps = <<>>
    /\ all_urls = <<>>
    /\ page_requests = <<>>
    /\ urls = <<>>
    /\ total_count = 0
    /\ app_cards = <<>>
    /\ html_records = <<>>
    /\ server = [honest |-> FALSE, catalog |-> <<>>]
    /\ MainIdle

vars == <<records, webhook_url, batch_size, batch_delay, defaulted, pc, total_records,
          batches, batch_num, successful_count, posts, outcomes, sleeps,
          result, raised>>

args == <<records, webhook_url, batch_size, batch_delay, defaulted>>

Init ==
    /\ webhook_url \in WebhookUrls
    /\ defaulted \in BOOLEAN
    /\ IF defaulted
       THEN /\ records \in RecordLists \cup {ScenarioRecords}
            /\ batch_size = DefaultArgs.batch_size
            /\ batch_delay = DefaultArgs.batch_delay
       ELSE /\ records \in RecordLists
            /\ batch_size \in BatchSizes
            /\ batch_delay \in BatchDelays
    /\ pc = "not_started"
    /\ total_records = 0
    /\ batches = <<>>
    /\ batch_num = 0
    /\ successful_count = 0
    /\ posts = <<>>
    /\ outcomes = <<>>
    /\ sleeps = <<>>
    /\ result = 0
    /\ raised = "none"
    /\ ScraperIdle

\* Lines 36-53: the two guards and the batch split.
Enter ==
    /\ pc = "not_started"
    /\ IF FalsyList(records) \/ FalsyStr(webhook_url)
       THEN /\ pc' = "done"
            /\ result' = 0
            /\ UNCHANGED <<total_records, batches, raised>>
       ELSE IF RangeRaises(batch_size)
       THEN /\ pc' = "raised"
            /\ raised' = "ValueError"
            /\ total_records' = Len(records)
            /\ UNCHANGED <<batches, result>>
       ELSE /\ pc' = "loop"
            /\ total_records' = Len(records)
            /\ batches' = Batches(records, batch_size)
            /\ UNCHANGED <<result, raised>>
    /\ UNCHANGED <<args, batch_num, successful_count, posts, outcomes, sleeps>>
    /\ UNCHANGED scraperVars

\* Mutant of IssuePost: a send that does not block (fire and forget), so the
\* loop takes the next batch while the POST is still in flight.
IssuePost_NoWait ==
    /\ pc = "loop"
    /\ batch_num < Len(batches)
    /\ batch_num' = batch_num + 1
    /\ posts' = Append(posts, Request(webhook_url, batches[batch_num + 1], batch_num + 1))
    /\ pc' = IF batch_num + 1 < Len(batches) THEN "loop" ELSE "sending"
    /\ UNCHANGED <<args, total_records, batches, successful_count, outcomes,
                   sleeps, result, raised>>
    /\ UNCHANGED scraperVars

\* Mutant of IssuePost: the batch is cut off the caller's list when it is sent
\* (`del records[:len(batch)]`).
IssuePost_Consume ==
    /\ pc = "loop"
    /\ batch_num < Len(batches)
    /\ batch_num' = batch_num + 1
    /\ posts' = Append(posts, Request(webhook_url, batches[batch_num + 1], batch_num + 1))
    /\ records' = SubSeq(records, Len(batches[batch_num + 1]) + 1, Len(records))
    /\ pc' = "sending"
    /\ UNCHANGED <<webhook_url, batch_size, batch_delay, defaulted, total_records,
                   batches, successful_count, outcomes, sleeps, result, raised>>
    /\ UNCHANGED scraperVars

\* Lines 55-62: the for loop takes the next batch and issues its POST.
IssuePost ==
    /\ pc = "loop"
    /\ batch_num < Len(batches)
    /\ batch_num' = batch_num + 1
    /\ posts' = Append(posts, Request(webhook_url, batches[batch_num + 1], batch_num + 1))
    /\ pc' = "sending"
    /\ UNCHANGED <<args, total_records, batches, successful_count, outcomes,
                   sleeps, result, raised>>
    /\ UNCHANGED scraperVars

\* Mutant of PostReturns: a failed batch is taken again by the loop (a retry).
PostReturns_Retry(o) ==
    /\ pc = "sending"
    /\ outcomes' = Append(outcomes, o)
    /\ IF Raised(o) # "none"
       THEN /\ batch_num' = batch_num - 1
            /\ pc' = "loop"
            /\ UNCHANGED <<successful_count, sleeps>>
       ELSE /\ successful_count' = CountAfter(successful_count, batches[batch_num], o)
            /\ batch_num' = batch_num
            /\ IF batch_num < Len(batches)
               THEN /\ sleeps' = Append(sleeps, batch_delay)
                    /\ pc' = "sleeping"
               ELSE /\ sleeps' = sleeps
                    /\ pc' = "loop"
    /\ UNCHANGED <<args, total_records, batches, posts, result, raised>>
    /\ UNCHANGED scraperVars

\* Mutant of PostReturns: a failed batch ends the loop (`break` in the except
\* clause), so the remaining batches are never taken.
PostReturns_Break(o) ==
    /\ pc = "sending"
    /\ outcomes' = Append(outcomes, o)
    /\ IF Raised(o) # "none"
       THEN /\ batch_num' = Len(batches)
            /\ pc' = "loop"
            /\ UNCHANGED <<successful_count, sleeps>>
       ELSE /\ successful_count' = CountAfter(successful_count, batches[batch_num], o)
            /\ batch_num' = batch_num
            /\ IF batch_num < Len(batches)
               THEN /\ sleeps' = Append(sleeps, batch_delay)
                    /\ pc' = "sleeping"
               ELSE /\ sleeps' = sleeps
                    /\ pc' = "loop"
    /\ UNCHANGED <<args, total_records, batches, posts, result, raised>>
    /\ UNCHANGED scraperVars

\* Mutant of PostReturns: the delay is taken after every batch, the last one
\* too (the `if batch_num < len(batches)` test dropped).
PostReturns_SleepAfterLast(o) ==
    /\ pc = "sending"
    /\ outcomes' = Append(outcomes, o)
    /\ successful_count' = CountAfter(successful_count, batches[batch_num], o)
    /\ sleeps' = Append(sleeps, batch_delay)
    /\ pc' = "sleeping"
    /\ UNCHANGED <<args, total_records, batches, batch_num, posts, result, raised>>
    /\ UNCHANGED scraperVars

\* Mutant of PostReturns: the delay sits in the try block after the count, so
\* a failed batch skips it.
PostReturns_NoSleepOnFailure(o) ==
    /\ pc = "sending"
    /\ outcomes' = Append(outcomes, o)
    /\ successful_count' = CountAfter(successful_count, batches[batch_num], o)
    /\ IF batch_num < Len(batches) /\ Raised(o) = "none"
       THEN /\ sleeps' = Append(sleeps, batch_delay)
            /\ pc' = "sleeping"
       ELSE /\ sleeps' = sleeps
            /\ pc' = "loop"
    /\ UNCHANGED <<args, total_records, batches, batch_num, posts, result, raised>>
    /\ UNCHANGED scraperVars

\* Mutant of PostReturns: a backoff, the delay doubled after a failed batch.
PostReturns_Backoff(o) ==
    /\ pc = "sending"
    /\ outcomes' = Append(outcomes, o)
    /\ successful_count' = CountAfter(successful_count, batches[batch_num], o)
    /\ IF batch_num < Len(batches)
       THEN /\ sleeps' = Append(sleeps, IF Raised(o) = "none"
                                        THEN batch_delay ELSE 2 * batch_delay)
            /\ pc' = "sleeping"
       ELSE /\ sleeps' = sleeps
            /\ pc' = "loop"
    /\ UNCHANGED <<args, total_records, batches, batch_num, posts, result, raised>>
    /\ UNCHANGED scraperVars

\* Lines 57-73: the POST ends in o; the try block counts the batch or the
\* except clause logs the failure; then the delay before the next batch.
PostReturns(o) ==
    /\ pc = "sending"
    /\ outcomes' = Append(outcomes, o)
    /\ IF Raised(o) # "none" /\ ~Caught(Raised(o))
       THEN /\ pc' = "raised"
            /\ raised' = Raised(o)
            /\ UNCHANGED <<successful_count, sleeps>>
       ELSE /\ successful_count' = CountAfter(successful_count, batches[batch_num], o)
            /\ raised' = raised
            /\ IF batch_num < Len(batches)
               THEN /\ sleeps' = Append(sleeps, batch_delay)
                    /\ pc' = "sleeping"
               ELSE /\ sleeps' = sleeps
                    /\ pc' = "loop"
    /\ UNCHANGED <<args, total_records, batches, batch_num, posts, result>>
    /\ UNCHANGED scraperVars

\* Line 73: time.sleep(batch_delay) returns.
Wake ==
    /\ pc = "sleeping"
    /\ pc' = "loop"
    /\ UNCHANGED <<args, total_records, batches, batch_num, successful_count,
                   posts, outcomes, sleeps, result, raised>>
    /\ UNCHANGED scraperVars

\* Lines 75-76: the loop is exhausted; return successful_count.
ReturnCount ==
    /\ pc = "loop"
    /\ batch_num >= Len(batches)
    /\ pc' = "done"
    /\ result' = successful_count
    /\ UNCHANGED <<args, total_records, batches, batch_num, successful_count,
                   posts, outcomes, sleeps, raised>>
    /\ UNCHANGED scraperVars

Next ==
    \/ Enter
    \/ IssuePost
    \/ \E o \in Outcomes : PostReturns(o)
    \/ Wake
    \/ ReturnCount

Spec == Init /\ [][Next]_vars

\* The call runs on one thread that is never cancelled: every step that can be
\* taken is taken, each POST ends (it is bounded by REQUEST_TIMEOUT) and each
\* time.sleep returns.
LiveSpec ==
    /\ Spec
    /\ WF_vars(Enter)
    /\ WF_vars(IssuePost)
    /\ WF_vars(\E o \in Outcomes : PostReturns(o))
    /\ WF_vars(Wake)
    /\ WF_vars(ReturnCount)

\* ------------------------------------------------- scrapers: discovery
\* MAX_PAGES of netsuite_suiteapp.py, acumatica_marketplace.py and
\* hubspot_marketplace.py, and PAGE_SIZE of microsoft_appsource.py.
NETSUITE_MAX_PAGES == 100
ACUMATICA_MAX_PAGES == 50
HUBSPOT_MAX_PAGES == 35
PAGE_SIZE == 50

\* The page caps and the page size are scaled down to these: the loops test
\* them with <=, < and >= only, so their structure does not depend on the value.
PageCap == 3
PageLen == 2
\* limit ranges over 0 (unlimited) .. MaxLimit.
MaxLimit == 2

\* The sitemap index of Shopify lists at most MaxSitemaps sitemaps.
MaxSitemaps == 2
\* totalCount ranges over 0 .. MaxTotal.
MaxTotal == 5

Urls == {"u1", "u2", "u3"}
AppIds == {"a1", "a2", "a3", "a4"}
Limits == 0 .. MaxLimit

\* Two of the eight products of lines 28-37.
DYNAMICS_PRODUCTS == <<"dynamics-365-business-central", "dynamics-365">>

\* PAGE_SIZE, scaled.
PageSize == Min(PAGE_SIZE, PageLen)

\* MAX_PAGES of scraper s, scaled.
MAX_PAGES(s) ==
    Min(CASE s = "netsuite" -> NETSUITE_MAX_PAGES
          [] s = "acumatica" -> ACUMATICA_MAX_PAGES
          [] OTHER -> HUBSPOT_MAX_PAGES,
        PageCap)

\* The position of a URL in the server's listing order.
UrlRank(u) == CASE u = "u1" -> 1 [] u = "u2" -> 2 [] OTHER -> 3

\* How one page request ends: the exception the code catches
\* (requests.exceptions.RequestException; for HubSpot any Exception), or the
\* links of the page. A page may repeat a link, and pages may repeat each
\* other; a page lists its links in the server's listing order, which the code
\* does not read: it collects them into a set.
PageOutcomes ==
    [exc : {"RequestException"}, links : {<<>>}]
        \cup [exc : {"none"},
              links : {l \in SeqsUpTo(Urls, PageLen) :
                          \A i \in 1 .. (Len(l) - 1) : UrlRank(l[i]) <= UrlRank(l[i + 1])}]

\* The elements of a list, as set(l) has them.
SetOf(l) == {l[i] : i \in DOMAIN l}

\* list(s) of a set s: Python fixes no order, so every order is possible.
ListsOf(s) ==
    {l \in [1 .. Cardinality(s) -> s] : \A i, j \in 1 .. Cardinality(s) : l[i] = l[j] => i = j}

\* Mutant of Truncate: result[:limit] applied for limit = 0 too.
Truncate_Always(l, lim) == Slice(l, 0, lim)

\* if limit > 0: result = result[:limit]
Truncate(l, lim) == IF lim > 0 THEN Slice(l, 0, lim) ELSE l

\* The links of a page that are not in discovered_urls yet.
NewUrls(links, seen) == SetOf(links) \ seen

\* Mutant of DiscoverPage: a failed page request is tried again.
DiscoverPage_Retry(o) ==
    /\ scraper \in {"netsuite", "acumatica"}
    /\ phase = "discover"
    /\ page <= MAX_PAGES(scraper)
    /\ page_requests' = Append(page_requests,
           [page |-> page, exc |-> o.exc, new |-> NewUrls(o.links, discovered_urls)])
    /\ IF o.exc # "none"
       THEN UNCHANGED <<discovered_urls, page, phase>>
       ELSE LET new_urls == NewUrls(o.links, discovered_urls)
            IN  IF new_urls = {}
                THEN /\ phase' = "collect"
                     /\ UNCHANGED <<discovered_urls, page>>
                ELSE /\ discovered_urls' = discovered_urls \cup new_urls
                     /\ IF limit > 0 /\ Cardinality(discovered_urls') >= limit
                        THEN phase' = "collect" /\ page' = page
                        ELSE phase' = phase /\ page' = page + 1
    /\ UNCHANGED <<scraper, limit, product, all_apps, all_urls, urls, total_count, app_cards,
                   html_records, server>>
    /\ UNCHANGED <<vars, mainVars>>

\* discover_app_urls of NetSuite and Acumatica, lines 48-108: one turn of the
\* while loop, whose page request ends in o.
DiscoverPage(o) ==
    /\ scraper \in {"netsuite", "acumatica"}
    /\ phase = "discover"
    /\ page <= MAX_PAGES(scraper)
    /\ page_requests' = Append(page_requests,
           [page |-> page, exc |-> o.exc, new |-> NewUrls(o.links, discovered_urls)])
    /\ IF o.exc # "none"
       THEN /\ phase' = "collect"
            /\ UNCHANGED <<discovered_urls, page>>
       ELSE LET new_urls == NewUrls(o.links, discovered_urls)
            IN  IF new_urls = {}
                THEN /\ phase' = "collect"
                     /\ UNCHANGED <<discovered_urls, page>>
                ELSE /\ discovered_urls' = discovered_urls \cup new_urls
                     /\ IF limit > 0 /\ Cardinality(discovered_urls') >= limit
                        THEN phase' = "collect" /\ page' = page
                        ELSE phase' = phase /\ page' = page + 1
    /\ UNCHANGED <<scraper, limit, product, all_apps, all_urls, urls, total_count, app_cards,
                   html_records, server>>
    /\ UNCHANGED <<vars, mainVars>>

\* discover_app_urls of HubSpot, lines 199-244: one turn of the for loop over
\* range(1, MAX_PAGES + 1); a page that fails is skipped (continue).
HubSpotPage(o) ==
    /\ scraper = "hubspot"
    /\ phase = "discover"
    /\ page <= MAX_PAGES(scraper)
    /\ page_requests' = Append(page_requests,
           [page |-> page, exc |-> o.exc, new |-> NewUrls(o.links, discovered_urls)])
    /\ IF o.exc # "none"
       THEN /\ page' = page + 1
            /\ UNCHANGED <<discovered_urls, phase>>
       ELSE LET new_urls == NewUrls(o.links, discovered_urls)
            IN  /\ discovered_urls' = discovered_urls \cup SetOf(o.links)
                /\ IF limit > 0 /\ Cardinality(discovered_urls') >= limit
                   THEN phase' = "collect" /\ page' = page
                   ELSE IF new_urls = {} /\ page > 1
                   THEN phase' = "collect" /\ page' = page
                   ELSE phase' = phase /\ page' = page + 1
    /\ UNCHANGED <<scraper, limit, product, all_apps, all_urls, urls, total_count, app_cards,
                   html_records, server>>
    /\ UNCHANGED <<vars, mainVars>>

\* The end of discover_app_urls (NetSuite 110-114, HubSpot 249-252): the loop
\* was left by break or ran out of pages.
ReturnUrls ==
    /\ scraper \in {"netsuite", "acumatica", "hubspot"}
    /\ phase = "collect" \/ (phase = "discover" /\ page > MAX_PAGES(scraper))
    /\ \E result_list \in ListsOf(discovered_urls) : urls' = Truncate(result_list, limit)
    /\ phase' = "returned"
    /\ UNCHANGED <<scraper, limit, page, product, discovered_urls, all_apps, all_urls,
                   page_requests, total_count, app_cards,
                   html_records, server>>
    /\ UNCHANGED <<vars, mainVars>>

\* Mutant of Deduplicate: the list is returned as collected.
Deduplicate_Skip(l) == {l}

\* list(set(all_urls)), in any of the orders it may come out in.
Deduplicate(l) == ListsOf(SetOf(l))

\* fetch_all_app_urls of Shopify, lines 106-112: one turn of the loop over the
\* sitemaps of the index; fetch_app_urls_from_sitemap gives [] when it fails.
ShopifySitemap(o) ==
    /\ scraper = "shopify"
    /\ phase = "discover"
    /\ page <= MaxSitemaps
    /\ page_requests' = Append(page_requests,
           [page |-> page, exc |-> o.exc, links |-> o.links])
    /\ all_urls' = all_urls \o (IF o.exc # "none" THEN <<>> ELSE o.links)
    /\ page' = page + 1
    /\ UNCHANGED <<scraper, limit, phase, product, discovered_urls, all_apps,
                   urls, total_count, app_cards,
                   html_records, server>>
    /\ UNCHANGED <<vars, mainVars>>

\* Lines 114-117: the index is exhausted (it ends where the server ended it);
\* deduplicate and return.
ShopifyReturn ==
    /\ scraper = "shopify"
    /\ phase = "discover"
    /\ \E deduped \in Deduplicate(all_urls) : all_urls' = deduped /\ urls' = deduped
    /\ phase' = "returned"
    /\ UNCHANGED <<scraper, limit, page, product, discovered_urls, all_apps,
                   page_requests, total_count, app_cards,
                   html_records, server>>
    /\ UNCHANGED <<vars, mainVars>>

\* Sequences over S without a repeated element, of length up to n.
InjectiveSeqs(S, n) ==
    {l \in SeqsUpTo(S, n) : \A i, j \in DOMAIN l : l[i] = l[j] => i = j}

\* An honest server holds one list of distinct apps per product, serves it in
\* pages of PAGE_SIZE and reports its length as totalCount; any other server
\* may answer a request with anything.
Servers ==
    [honest : {TRUE},
     catalog : [DOMAIN DYNAMICS_PRODUCTS -> InjectiveSeqs(AppIds, PageSize + 1)]]
        \cup {[honest |-> FALSE, catalog |-> <<>>]}

\* What fetch_apps_page may return for page p of product k (lines 46-83): the
\* ids of "apps" in order and "totalCount"; {} (a failed request) has no apps
\* and a total of 0.
Responses(k, p) ==
    IF server.honest
    THEN {[apps |-> Slice(server.catalog[k], (p - 1) * PageSize, p * PageSize),
           total |-> Len(server.catalog[k])]}
    ELSE [apps : SeqsUpTo(AppIds, PageSize), total : 0 .. MaxTotal]

\* Mutant of AddApps: the `app_id not in all_apps` test dropped from a list.
AddApps_NoCheck(all, apps) == all \o apps

\* Lines 158-162: each app of the page is added unless its id is a key already.
RECURSIVE AddApps(_, _)
AddApps(all, apps) ==
    IF apps = <<>> THEN all
    ELSE AddApps(IF Head(apps) \in SetOf(all) THEN all ELSE Append(all, Head(apps)),
                 Tail(apps))

\* Lines 167-169: the loop goes on to the next page unless
\* len(all_apps) >= total_count or len(apps) < PAGE_SIZE.
MorePages(collected, fetched, total) == ~(collected >= total \/ fetched < PageSize)

\* discover_apps, lines 144-184: one turn of the while loop of the current
\* product, whose request is answered by o; when the loop is left, line 181
\* ends the for loop too or the next product starts at page 1. The page number
\* matters to an honest server only, which is never asked past PageCap.
MicrosoftPage(o) ==
    /\ scraper = "microsoft"
    /\ phase = "discover"
    /\ o \in Responses(product, page)
    /\ LET added == IF o.apps = <<>> THEN all_apps ELSE AddApps(all_apps, o.apps)
           goes_on == /\ o.apps # <<>>
                      /\ MorePages(Len(added), Len(o.apps), o.total)
                      /\ ~(limit > 0 /\ Len(added) >= limit)
       IN  /\ all_apps' = added
           /\ total_count' = IF o.apps = <<>> THEN total_count ELSE o.total
           /\ IF goes_on
              THEN /\ page' = Min(page + 1, PageCap)
                   /\ UNCHANGED <<product, phase>>
              ELSE IF limit > 0 /\ Len(added) >= limit
              THEN /\ phase' = "collect"
                   /\ UNCHANGED <<product, page>>
              ELSE IF product < Len(DYNAMICS_PRODUCTS)
              THEN /\ product' = product + 1
                   /\ page' = 1
                   /\ phase' = phase
              ELSE /\ phase' = "collect"
                   /\ UNCHANGED <<product, page>>
    /\ UNCHANGED <<scraper, limit, discovered_urls, all_urls, page_requests, urls,
                   app_cards, html_records, server>>
    /\ UNCHANGED <<vars, mainVars>>

\* Lines 186-191: the apps in insertion order, cut to limit.
ReturnApps ==
    /\ scraper = "microsoft"
    /\ phase = "collect"
    /\ urls' = Truncate(all_apps, limit)
    /\ phase' = "returned"
    /\ UNCHANGED <<scraper, limit, page, product, discovered_urls, all_apps, all_urls,
                   page_requests, total_count, app_cards,
                   html_records, server>>
    /\ UNCHANGED <<vars, mainVars>>

\* records of scrape_via_html may grow without end; the model keeps its first
\* MaxRecords entries. The code reads only len(records) >= limit of it, and
\* limit <= MaxLimit < MaxRecords.
MaxRecords == 4

\* A card of an HTML page: without a /product/ link, with the link but without
\* a title, or with the link and the title "n1".
Cards == {"nolink", "noname", "n1"}

\* How the request for one HTML page ends: an exception, or the cards
\* find_all matches on the page, in order.
HtmlOutcomes ==
    [exc : {"ConnectionError", "HTTPError"}, cards : {<<>>}]
        \cup [exc : {"none"}, cards : SeqsUpTo(Cards, PageLen)]

KeepFirst(l, n) == SubSeq(l, 1, Min(Len(l), n))

\* Lines 320-360, the loop over the cards of one page: the records after it
\* and whether the limit test of line 359 returned out of it.
RECURSIVE ScanCards(_, _, _)
ScanCards(recs, cards, lim) ==
    IF cards = <<>> THEN [records |-> recs, returned |-> FALSE]
    ELSE IF Head(cards) = "nolink" THEN ScanCards(recs, Tail(cards), lim)
    ELSE LET after == IF Head(cards) = "noname" THEN recs ELSE Append(recs, Head(cards))
         IN  IF lim > 0 /\ Len(after) >= lim
             THEN [records |-> after, returned |-> TRUE]
             ELSE ScanCards(after, Tail(cards), lim)

\* scrape_via_html, lines 300-372: one turn of the while loop of the current
\* product, whose request ends in o. An exception or a page without cards
\* leaves the loop, and line 369 then ends the for loop or the next product
\* starts at page 1; a page with cards is scanned and, unless the limit is
\* reached in it, the next page is requested. The page number is part of the
\* request only, and the model counts it up to PageCap.
HtmlPage(o) ==
    /\ scraper = "microsoft_html"
    /\ phase = "discover"
    /\ IF o.exc # "none" \/ o.cards = <<>>
       THEN /\ app_cards' = IF o.exc # "none" THEN app_cards ELSE o.cards
            /\ html_records' = html_records
            /\ IF (limit > 0 /\ Len(html_records) >= limit)
                   \/ product >= Len(DYNAMICS_PRODUCTS)
               THEN /\ phase' = "returned"
                    /\ urls' = html_records
                    /\ UNCHANGED <<product, page>>
               ELSE /\ product' = product + 1
                    /\ page' = 1
                    /\ UNCHANGED <<phase, urls>>
       ELSE LET scan == ScanCards(html_records, o.cards, limit)
            IN  /\ app_cards' = o.cards
                /\ html_records' = KeepFirst(scan.records, MaxRecords)
                /\ IF scan.returned
                   THEN /\ phase' = "returned"
                        /\ urls' = html_records'
                        /\ page' = page
                   ELSE /\ page' = Min(page + 1, PageCap)
                        /\ UNCHANGED <<phase, urls>>
                /\ product' = product
    /\ UNCHANGED <<scraper, limit, discovered_urls, all_apps, all_urls, page_requests,
                   total_count, server>>
    /\ UNCHANGED <<vars, mainVars>>

\* push_to_clay is not called during discovery.
PushIdle ==
    /\ records = <<>>
    /\ webhook_url = "None"
    /\ batch_size = DefaultArgs.batch_size
    /\ batch_delay = DefaultArgs.batch_delay
    /\ defaulted = TRUE
    /\ pc = "uncalled"
    /\ total_records = 0
    /\ batches = <<>>
    /\ batch_num = 0
    /\ successful_count = 0
    /\ posts = <<>>
    /\ outcomes = <<>>
    /\ sleeps = <<>>
    /\ result = 0
    /\ raised = "none"

\* A discovery function has been called with limit; Shopify's takes none.
DiscoveryInit ==
    /\ scraper \in {"netsuite", "acumatica", "hubspot", "shopify", "microsoft",
                    "microsoft_html"}
    /\ limit \in IF scraper = "shopify" THEN {0} ELSE Limits
    /\ phase = "discover"
    /\ page = 1
    /\ product = IF scraper \in {"microsoft", "microsoft_html"} THEN 1 ELSE 0
    /\ discovered_urls = {}
    /\ all_apps = <<>>
    /\ all_urls = <<>>
    /\ page_requests = <<>>
    /\ urls = <<>>
    /\ total_count = 0
    /\ app_cards = <<>>
    /\ html_records = <<>>
    /\ server \in IF scraper = "microsoft" THEN Servers
                                            ELSE {[honest |-> FALSE, catalog |-> <<>>]}
    /\ MainIdle
    /\ PushIdle

DiscoveryNext ==
    \/ \E o \in PageOutcomes : DiscoverPage(o)
    \/ \E o \in PageOutcomes : HubSpotPage(o)
    \/ ReturnUrls
    \/ \E o \in PageOutcomes : ShopifySitemap(o)
    \/ ShopifyReturn
    \/ \E o \in [apps : SeqsUpTo(AppIds, PageSize), total : 0 .. MaxTotal] : MicrosoftPage(o)
    \/ ReturnApps
    \/ \E o \in HtmlOutcomes : HtmlPage(o)

allVars == <<vars, scraperVars>>

DiscoverySpec == DiscoveryInit /\ [][DiscoveryNext]_allVars

\* Each discovery runs on one thread that is never cancelled, and each page
\* request ends (it is bounded by its timeout): a step that stays possible is
\* taken.
DiscoveryLive ==
    /\ DiscoverySpec
    /\ WF_allVars(\E o \in PageOutcomes : DiscoverPage(o))
    /\ WF_allVars(\E o \in PageOutcomes : HubSpotPage(o))
    /\ WF_allVars(ReturnUrls)
    /\ WF_allVars(ShopifyReturn)
    /\ WF_allVars(\E o \in [apps : SeqsUpTo(AppIds, PageSize), total : 0 .. MaxTotal] :
                      MicrosoftPage(o))
    /\ WF_allVars(ReturnApps)
    /\ WF_allVars(\E o \in HtmlOutcomes : HtmlPage(o))

\* discover_app_urls of NetSuite and Acumatica on its own, with the same
\* fairness.
PagingInit == DiscoveryInit /\ scraper \in {"netsuite", "acumatica"}

PagingNext ==
    \/ \E o \in PageOutcomes : DiscoverPage(o)
    \/ ReturnUrls

PagingLive ==
    /\ PagingInit
    /\ [][PagingNext]_allVars
    /\ WF_allVars(\E o \in PageOutcomes : DiscoverPage(o))
    /\ WF_allVars(ReturnUrls)

\* ------------------------------------------------------ scrapers: main
\* main scrapes at most MaxUrls URLs.
MaxUrls == 2

\* How one scrape call of main's loop ends. "record": the page was fetched
\* and parsed into a record. "request_failed": session.get or raise_for_status
\* raised a RequestException. "no_record": the page has nothing to parse (no
\* window.stores, no listing, no app name) and the call returns None.
\* "AttributeError": the page's JSON has null (or a string) where parse_listing
\* calls .get, as in "reviewsSummary": null; parse_listing catches KeyError
\* and TypeError only and scrape_listing RequestException only, so the
\* AttributeError leaves both. NetSuite's parse_app_page reads the HTML through
\* BeautifulSoup's find and get_text, which return None or text; HubSpot's
\* scrape_app_detail catches Exception.
ScrapeOutcomes(s) ==
    IF s = "salesforce"
    THEN {"record", "request_failed", "no_record", "AttributeError"}
    ELSE {"record", "request_failed", "no_record"}

\* The exception a scrape call lets through to main's loop, "none" otherwise.
Propagates(o) == IF o = "AttributeError" THEN o ELSE "none"

\* The number of URLs the loop has taken so far.
Attempted == Len(attempts)

\* main of NetSuite (325-327) and HubSpot (466-468): no URL was discovered.
NoUrls ==
    /\ scraper \in {"netsuite", "hubspot"}
    /\ phase = "scrape"
    /\ urls = <<>>
    /\ phase' = "exited"
    /\ UNCHANGED <<scraper, limit, page, product, discovered_urls, all_apps, all_urls,
                   page_requests, urls, total_count, app_cards, html_records, server>>
    /\ UNCHANGED <<vars, mainVars>>

\* One turn of main's loop over urls (Salesforce 257-269, NetSuite 332-344,
\* HubSpot 479-491, and the loop over apps of Microsoft 424-427): the scrape
\* call ends in o, and its record, if any, is appended.
ScrapeUrl(o) ==
    /\ phase = "scrape"
    /\ Attempted < Len(urls)
    /\ o \in ScrapeOutcomes(scraper)
    /\ attempts' = Append(attempts, [url |-> urls[Attempted + 1], outcome |-> o])
    /\ IF Propagates(o) # "none"
       THEN /\ phase' = "aborted"
            /\ main_records' = main_records
       ELSE /\ phase' = phase
            /\ main_records' = IF o = "record"
                                THEN Append(main_records, urls[Attempted + 1])
                                ELSE main_records
    /\ UNCHANGED <<scraper, limit, page, product, discovered_urls, all_apps, all_urls,
                   page_requests, urls, total_count, app_cards, html_records, server>>
    /\ UNCHANGED <<clay_webhook_url, saved_file, push_calls>>
    /\ UNCHANGED vars

\* main of Microsoft, lines 433-446: with fewer than 10 records the HTML
\* scrape is tried and its list h is taken when it is longer; without any
\* record main returns None.
HtmlFallback(h) ==
    /\ scraper = "microsoft"
    /\ phase = "scrape"
    /\ Attempted = Len(urls)
    /\ LET recs == IF Len(main_records) < 10 /\ Len(h) > Len(main_records)
                   THEN h ELSE main_records
       IN  /\ main_records' = recs
           /\ html_records' = IF Len(main_records) < 10 THEN h ELSE html_records
           /\ phase' = IF recs = <<>> THEN "exited" ELSE "save"
    /\ UNCHANGED <<scraper, limit, page, product, discovered_urls, all_apps, all_urls,
                   page_requests, urls, total_count, app_cards, server>>
    /\ UNCHANGED <<clay_webhook_url, attempts, saved_file, push_calls>>
    /\ UNCHANGED vars

\* Mutant of SaveResults: the file is written after the push (the save is
\* skipped here and main goes on to the push).
SaveResults_Late(ok) ==
    /\ \/ phase = "save"
       \/ /\ phase = "scrape"
          /\ scraper \in {"salesforce", "netsuite", "hubspot"}
          /\ Attempted = Len(urls)
          /\ scraper = "salesforce" \/ urls # <<>>
    /\ phase' = "push"
    /\ UNCHANGED <<scraper, limit, page, product, discovered_urls, all_apps, all_urls,
                   page_requests, urls, total_count, app_cards, html_records, server>>
    /\ UNCHANGED <<clay_webhook_url, main_records, attempts, saved_file, push_calls>>
    /\ UNCHANGED vars

\* save_results (Salesforce 275, NetSuite 350, Microsoft 449, HubSpot 504),
\* reached when the loop is exhausted: the file is written, or open/json.dump
\* raises and main ends there.
SaveResults(ok) ==
    /\ \/ phase = "save"
       \/ /\ phase = "scrape"
          /\ scraper \in {"salesforce", "netsuite", "hubspot"}
          /\ Attempted = Len(urls)
          /\ scraper = "salesforce" \/ urls # <<>>
    /\ IF ok
       THEN /\ saved_file' = [written |-> TRUE, records |-> main_records]
            /\ phase' = "push"
       ELSE /\ saved_file' = saved_file
            /\ phase' = "aborted"
    /\ UNCHANGED <<scraper, limit, page, product, discovered_urls, all_apps, all_urls,
                   page_requests, urls, total_count, app_cards, html_records, server>>
    /\ UNCHANGED <<clay_webhook_url, main_records, attempts, push_calls>>
    /\ UNCHANGED vars

\* Mutant of CallPush: push_to_clay called without the `if clay_webhook_url:`.
CallPush_Unguarded ==
    /\ phase = "push"
    /\ pc = "uncalled"
    /\ records' = main_records
    /\ webhook_url' = clay_webhook_url
    /\ batch_size' = DefaultArgs.batch_size
    /\ batch_delay' = DefaultArgs.batch_delay
    /\ defaulted' = TRUE
    /\ pc' = "not_started"
    /\ push_calls' = push_calls + 1
    /\ phase' = "pushing"
    /\ UNCHANGED <<total_records, batches, batch_num, successful_count, posts, outcomes,
                   sleeps, result, raised>>
    /\ UNCHANGED <<scraper, limit, page, product, discovered_urls, all_apps, all_urls,
                   page_requests, urls, total_count, app_cards, html_records, server>>
    /\ UNCHANGED <<clay_webhook_url, main_records, attempts, saved_file>>

\* `if clay_webhook_url: push_to_clay(records, clay_webhook_url)` (Salesforce
\* 278-279, NetSuite 353-354, Microsoft 452-453, HubSpot 507-508): the call,
\* with the default batch_size and batch_delay.
CallPush ==
    /\ phase = "push"
    /\ ~FalsyStr(clay_webhook_url)
    /\ pc = "uncalled"
    /\ records' = main_records
    /\ webhook_url' = clay_webhook_url
    /\ batch_size' = DefaultArgs.batch_size
    /\ batch_delay' = DefaultArgs.batch_delay
    /\ defaulted' = TRUE
    /\ pc' = "not_started"
    /\ push_calls' = push_calls + 1
    /\ phase' = "pushing"
    /\ UNCHANGED <<total_records, batches, batch_num, successful_count, posts, outcomes,
                   sleeps, result, raised>>
    /\ UNCHANGED <<scraper, limit, page, product, discovered_urls, all_apps, all_urls,
                   page_requests, urls, total_count, app_cards, html_records, server>>
    /\ UNCHANGED <<clay_webhook_url, main_records, attempts, saved_file>>

\* The else branch: no CLAY_WEBHOOK_URL, main returns the file name.
SkipPush ==
    /\ phase = "push"
    /\ FalsyStr(clay_webhook_url)
    /\ phase' = "exited"
    /\ UNCHANGED <<scraper, limit, page, product, discovered_urls, all_apps, all_urls,
                   page_requests, urls, total_count, app_cards, html_records, server>>
    /\ UNCHANGED <<vars, mainVars>>

\* push_to_clay has returned (or raised); main returns the file name.
MainReturn ==
    /\ phase = "pushing"
    /\ pc \in {"done", "raised"}
    /\ phase' = IF pc = "done" THEN "exited" ELSE "aborted"
    /\ UNCHANGED <<scraper, limit, page, product, discovered_urls, all_apps, all_urls,
                   page_requests, urls, total_count, app_cards, html_records, server>>
    /\ UNCHANGED <<vars, mainVars>>

\* main after discovery: urls is what the discovery returned (Salesforce's
\* sitemap may list a URL twice), the environment holds CLAY_WEBHOOK_URL or
\* not, and push_to_clay has not been called.
MainInit ==
    /\ scraper \in {"salesforce", "netsuite", "microsoft", "hubspot"}
    /\ urls \in IF scraper = "salesforce" THEN SeqsUpTo(Urls, MaxUrls)
                                          ELSE InjectiveSeqs(Urls, MaxUrls)
    /\ clay_webhook_url \in WebhookUrls
    /\ phase = "scrape"
    /\ limit = 0
    /\ page = 1
    /\ product = 0
    /\ discovered_urls = {}
    /\ all_apps = <<>>
    /\ all_urls = <<>>
    /\ page_requests = <<>>
    /\ total_count = 0
    /\ app_cards = <<>>
    /\ html_records = <<>>
    /\ server = [honest |-> FALSE, catalog |-> <<>>]
    /\ main_records = <<>>
    /\ attempts = <<>>
    /\ saved_file = [written |-> FALSE, records |-> <<>>]
    /\ push_calls = 0
    /\ PushIdle

\* Wake is left out: main passes fewer than BATCH_SIZE records, which is one
\* batch, and push_to_clay sleeps between batches only.
MainNext ==
    \/ NoUrls
    \/ \E o \in ScrapeOutcomes("salesforce") : ScrapeUrl(o)
    \/ \E h \in SeqsUpTo({"n1"}, MaxUrls) : HtmlFallback(h)
    \/ \E ok \in BOOLEAN : SaveResults(ok)
    \/ CallPush
    \/ SkipPush
    \/ Enter
    \/ IssuePost
    \/ \E o \in Outcomes : PostReturns(o)
    \/ ReturnCount
    \/ MainReturn

MainSpec == MainInit /\ [][MainNext]_allVars

\* ------------------------------------------------ vocabulary of the claims
\* ceil(n / b) for b > 0.
CeilDiv(n, b) == (n + b - 1) \div b

\* A 2xx response: the specification's notion of a successful POST.
Is2xx(o) == o.exc = "none" /\ 200 <= o.status /\ o.status < 300

\* The call went past both guards with a positive batch size.
Delivering == webhook_url \notin {"", "None"} /\ batch_size > 0

\* The outcomes that are 2xx responses.
Successes == {o \in Outcomes : Is2xx(o)}

RECURSIVE SumLenWhere(_, _, _)
\* The total length of the bodies of the first n POSTs whose outcome is in ok.
SumLenWhere(n, ok, log) ==
    IF n = 0 THEN 0
    ELSE SumLenWhere(n - 1, ok, log)
             + (IF log[n] \in ok THEN Len(posts[n].json) ELSE 0)

RECURSIVE Concat(_, _)
\* The bodies of the first n POSTs, one after the other.
Concat(n, sent) == IF n = 0 THEN <<>> ELSE Concat(n - 1, sent) \o sent[n].json

\* ------------------------------------------------------------------ claims
\* C1: with a non-empty endpoint and batch_size B > 0, a completed call over
\* N >= 0 records has issued exactly ceil(N / B) POST requests (none for
\* N = 0), whatever each POST ended in; and never more than that on the way.
C1_PostCount ==
    Delivering =>
        /\ Len(posts) <= CeilDiv(Len(records), batch_size)
        /\ pc = "done" => Len(posts) = CeilDiv(Len(records), batch_size)

\* A completed call whose last batch is a short one and whose POSTs did not
\* all succeed.
C1_Witness ==
    /\ pc = "done"
    /\ Len(records) = 3
    /\ batch_size = 2
    /\ Len(posts) = 2
    /\ \E i \in DOMAIN outcomes : ~Is2xx(outcomes[i])

\* C2: the returned value is the total length of exactly the batches whose
\* POST succeeded, that is, was answered with a 2xx status.
C2_ReturnIsSumOfSucceeded ==
    pc = "done" => result = SumLenWhere(Len(outcomes), Successes, outcomes)

\* C2, the accounting alone: the returned value is the total length of the
\* batches whose try block completed; a batch counts in full or not at all.
C2_WholeBatchesOfCompletedTries ==
    pc = "done" =>
        result = SumLenWhere(Len(outcomes), {o \in Outcomes : Raised(o) = "none"}, outcomes)

\* C3 as stated: for any records, any endpoint value and any batch_size > 0,
\* if every POST issued succeeds, the call returns N.
C3_Original ==
    (/\ pc = "done"
     /\ batch_size > 0
     /\ \A i \in DOMAIN outcomes : Is2xx(outcomes[i]))
        => result = Len(records)

\* C3, amended: for any records, a non-empty endpoint and any batch_size > 0,
\* if every POST issued succeeds, the call returns N.
C3_AllSucceed ==
    (/\ pc = "done"
     /\ Delivering
     /\ \A i \in DOMAIN outcomes : Is2xx(outcomes[i]))
        => result = Len(records)

\* Two batches, the last one short, both answered 2xx.
C3_Witness ==
    /\ pc = "done"
    /\ Delivering
    /\ Len(records) = 3
    /\ batch_size = 2
    /\ Len(outcomes) = 2
    /\ \A i \in DOMAIN outcomes : Is2xx(outcomes[i])
    /\ result = 3

\* C4: with a non-empty endpoint and batch_size > 0, if every POST fails
\* (is not answered 2xx), the call returns 0 and has attempted all
\* ceil(N / B) requests.
C4_AllFail ==
    (/\ pc = "done"
     /\ Delivering
     /\ \A i \in DOMAIN outcomes : ~Is2xx(outcomes[i]))
        => /\ result = 0
           /\ Len(posts) = CeilDiv(Len(records), batch_size)

\* C5: every batch is POSTed exactly once, whatever the outcomes: no two
\* POSTs carry the same batch, each POST carries its batch whole, the records
\* sent so far are the input's first ones, each position once, and a completed
\* delivery has sent every batch.
C5_EachBatchOnce ==
    /\ \A i, j \in DOMAIN posts : posts[i].batch_num = posts[j].batch_num => i = j
    /\ \A i \in DOMAIN posts :
          /\ posts[i].batch_num \in DOMAIN batches
          /\ posts[i].json = batches[posts[i].batch_num]
    /\ LET sent == Concat(Len(posts), posts)
       IN  /\ Len(sent) <= Len(records)
           /\ sent = SubSeq(records, 1, Len(sent))
    /\ (pc = "done" /\ Delivering) =>
          {posts[i].batch_num : i \in DOMAIN posts} = DOMAIN batches

\* A completed call of three batches whose first POST failed.
C5_Witness ==
    /\ pc = "done"
    /\ Len(posts) = 3
    /\ Raised(outcomes[1]) # "none"
    /\ Raised(outcomes[3]) = "none"

\* C6: a batch's length is in the success counter if and only if its POST
\* was answered with a 2xx status.
C6_CountedIff2xx ==
    successful_count = SumLenWhere(Len(outcomes), Successes, outcomes)

\* C7: no failure of a POST is propagated or aborts the loop: once a POST was
\* issued the call never ends in an exception, a completed call has an outcome
\* for every batch, and it returns a count between 0 and N.
C7_NoFailurePropagates ==
    /\ posts # <<>> => (pc # "raised" /\ raised = "none")
    /\ (pc = "done" /\ posts # <<>>) => Len(outcomes) = Len(batches)
    /\ pc = "done" => result \in 0 .. Len(records)

\* A completed call whose three POSTs failed in the three ways: a connection
\* error, a timeout and an error status.
C7_Witness ==
    /\ pc = "done"
    /\ Len(outcomes) = 3
    /\ outcomes[1].exc = "ConnectionError"
    /\ outcomes[2].exc = "Timeout"
    /\ outcomes[3] = [exc |-> "none", status |-> 400]
    /\ result = 0

\* C8: with empty records the call returns 0 at once, with no request and no
\* delay, for every endpoint and every batch_size (zero and negative too).
C8_EmptyRecords ==
    Len(records) = 0 =>
        /\ pc \in {"not_started", "done"}
        /\ posts = <<>>
        /\ sleeps = <<>>
        /\ raised = "none"
        /\ pc = "done" => result = 0

\* Empty records with a usable endpoint and batch_size 0, returned.
C8_Witness ==
    /\ Len(records) = 0
    /\ webhook_url = "http://x"
    /\ batch_size = 0
    /\ pc = "done"

\* C9: with an empty or absent endpoint the call returns 0 with no request,
\* for every records list, and raises nothing.
C9_NoEndpoint ==
    webhook_url \in {"", "None"} =>
        /\ pc \in {"not_started", "done"}
        /\ posts = <<>>
        /\ raised = "none"
        /\ pc = "done" => result = 0

\* Records to send, an empty endpoint and batch_size 0, returned.
C9_Witness ==
    /\ Len(records) = 2
    /\ webhook_url = ""
    /\ batch_size = 0
    /\ pc = "done"

\* C10: for B > 0 the body of the i-th POST is the records at the 0-based
\* input positions (i-1)*B up to, not including, min(i*B, N), in input order.
C10_BatchBodies ==
    batch_size > 0 =>
        \A i \in DOMAIN posts :
            LET lo == (i - 1) * batch_size
                hi == Min(i * batch_size, Len(records))
            IN  /\ Len(posts[i].json) = hi - lo
                /\ \A p \in 1 .. (hi - lo) : posts[i].json[p] = records[lo + p]

\* Two POSTs over three records that tell the order apart.
C10_Witness ==
    /\ records = <<"r1", "r2", "r1">>
    /\ batch_size = 2
    /\ Len(posts) = 2
    /\ posts[1].json = <<"r1", "r2">>
    /\ posts[2].json = <<"r1">>

RECURSIVE Flatten(_, _)
\* The first n sequences of bs, one after the other.
Flatten(n, bs) == IF n = 0 THEN <<>> ELSE Flatten(n - 1, bs) \o bs[n]

\* C11: with a non-empty endpoint and batch_size B > 0 the batches partition
\* the input: put end to end they are the records list (no record lost, none
\* twice), each is non-empty and at most B long, only the last may be shorter
\* than B, and the i-th POST carries the i-th batch whole, so a completed call
\* has sent every record in exactly one POST body.
C11_Partition ==
    (Delivering /\ pc \notin {"not_started", "raised"} /\ Len(records) > 0) =>
        /\ Flatten(Len(batches), batches) = records
        /\ \A k \in DOMAIN batches :
              /\ Len(batches[k]) >= 1
              /\ Len(batches[k]) <= batch_size
              /\ k < Len(batches) => Len(batches[k]) = batch_size
        /\ \A i \in DOMAIN posts : posts[i].json = batches[i]
        /\ pc = "done" => Concat(Len(posts), posts) = records

\* A completed call over three records in batches of two: a full batch and a
\* short last one.
C11_Witness ==
    /\ pc = "done"
    /\ Len(records) = 3
    /\ batch_size = 2
    /\ Len(batches) = 2
    /\ Len(posts[1].json) = 2
    /\ Len(posts[2].json) = 1

\* The steps of the linear state machine: not started, then the loop taking a
\* batch and sending it, a delay between two batches, and done (or, before any
\* batch, the exception of the batch split).
LinearSteps ==
    {<<"not_started", "loop">>, <<"not_started", "done">>, <<"not_started", "raised">>,
     <<"loop", "sending">>, <<"sending", "sleeping">>, <<"sending", "loop">>,
     <<"sleeping", "loop">>, <<"loop", "done">>}

\* C12: batches are attempted in input order along a linear state machine:
\* the i-th POST carries batch i, the batch index moves only forward and by
\* exactly one, a batch is taken only when the POST of the one before it has
\* completed (succeeded or failed), and a completed delivery has gone through
\* all ceil(N / B) batches.
C12_LinearStateMachine ==
    /\ [](/\ Len(posts) = batch_num
          /\ \A i \in DOMAIN posts : posts[i].batch_num = i
          /\ Len(outcomes) = (IF pc = "sending" THEN batch_num - 1 ELSE batch_num)
          /\ (pc = "done" /\ Delivering) =>
                batch_num = CeilDiv(Len(records), batch_size))
    /\ [][/\ <<pc, pc'>> \in LinearSteps
          /\ batch_num' \in {batch_num, batch_num + 1}
          /\ batch_num' = batch_num + 1 =>
                (pc' = "sending" /\ Len(outcomes) = batch_num)]_vars

\* A completed call that went through three batches, the second one failing.
C12_Witness ==
    /\ pc = "done"
    /\ batch_num = 3
    /\ Len(posts) = 3
    /\ Raised(outcomes[2]) # "none"

RECURSIVE SumSeq(_, _)
\* The sum of the first n numbers of s.
SumSeq(n, s) == IF n = 0 THEN 0 ELSE SumSeq(n - 1, s) + s[n]

\* C13: a call that attempts k >= 1 batches suspends for batch_delay exactly
\* k - 1 times: every delay is batch_delay, none is taken before the first
\* POST, exactly one lies between two consecutive POSTs, none follows the
\* last one, and the total suspension is (k - 1) * batch_delay.
C13_DelaysBetweenBatches ==
    /\ \A i \in DOMAIN sleeps : sleeps[i] = batch_delay
    /\ posts = <<>> => sleeps = <<>>
    /\ pc = "sending" => Len(sleeps) = Len(posts) - 1
    /\ pc = "sleeping" => (Len(sleeps) = Len(posts) /\ Len(posts) < Len(batches))
    /\ (pc = "done" /\ Len(posts) >= 1) =>
          /\ Len(sleeps) = Len(posts) - 1
          /\ SumSeq(Len(sleeps), sleeps) = (Len(posts) - 1) * batch_delay

\* A completed call of three batches with the default delay: two delays.
C13_Witness ==
    /\ pc = "done"
    /\ Len(posts) = 3
    /\ batch_delay = BATCH_DELAY
    /\ sleeps = <<BATCH_DELAY, BATCH_DELAY>>

\* C14: the running success counter is never negative, never decreases and is
\* at most the number of records in the batches attempted so far; so the
\* returned count is between 0 and len(records).
C14_CounterBounds ==
    /\ [](/\ successful_count >= 0
          /\ successful_count <= SumLenWhere(Len(outcomes), Outcomes, outcomes)
          /\ successful_count <= Len(records)
          /\ pc = "done" => (result >= 0 /\ result <= Len(records)))
    /\ [][successful_count' >= successful_count]_vars

\* A completed call of three batches of which exactly one was counted.
C14_Witness ==
    /\ pc = "done"
    /\ Len(records) = 3
    /\ Len(outcomes) = 3
    /\ result = 1

\* The POSTs issued and not yet ended.
InFlight == Len(posts) - Len(outcomes)

\* C15: one call runs strictly sequentially: at most one POST is in flight at
\* any time, one is in flight exactly while the call is blocked in
\* requests.post, and none is in flight while a delay is outstanding.
C15_Sequential ==
    /\ InFlight \in {0, 1}
    /\ InFlight = 1 <=> pc = "sending"
    /\ pc = "sleeping" => InFlight = 0

\* The second POST in flight, after the first one ended and its delay passed.
C15_Witness ==
    /\ pc = "sending"
    /\ Len(posts) = 2
    /\ Len(outcomes) = 1
    /\ Len(sleeps) = 1

\* C16: once invoked with batch_size > 0 the call runs to completion: given
\* that every POST ends and every delay passes, it reaches done and returns,
\* whatever the outcomes, and when it delivers it has then attempted all
\* ceil(N / B) batches.
C16_RunsToCompletion ==
    (batch_size > 0) ~>
        (/\ pc = "done"
         /\ Len(outcomes) = Len(batches)
         /\ Delivering => Len(outcomes) = CeilDiv(Len(records), batch_size))

\* A call that returned after three batches that ended in a timeout, an error
\* status and a success.
C16_Witness ==
    /\ pc = "done"
    /\ batch_size > 0
    /\ Len(outcomes) = 3
    /\ outcomes[1].exc = "Timeout"
    /\ outcomes[2] = [exc |-> "none", status |-> 599]
    /\ outcomes[3] = [exc |-> "none", status |-> 200]

\* C17: the call neither validates nor mutates its input: no step changes the
\* records list (length, order, values), every record of a POST body is the
\* input's record of that position as supplied, and a completed delivery has
\* sent all of them, whatever their values.
C17_InputUntouched ==
    /\ [][records' = records]_vars
    /\ [](LET sent == Concat(Len(posts), posts)
          IN  /\ \A p \in DOMAIN sent : p \in DOMAIN records /\ sent[p] = records[p]
              /\ (pc = "done" /\ Delivering) => sent = records)

\* A completed delivery of a list that holds the same record twice.
C17_Witness ==
    /\ pc = "done"
    /\ Delivering
    /\ records = <<"r2", "r1", "r2">>
    /\ Concat(Len(posts), posts) = <<"r2", "r1", "r2">>

\* C18: a call that passes neither batch_size nor batch_delay behaves as one
\* with batch_size = 100 and batch_delay = 0.5 s: its POST bodies are the
\* slices of 100, its delays are 0.5 s, it issues ceil(N / 100) POSTs, and it
\* returns the total of the batches counted; so the longer list of 10 records
\* goes out as one batch of 10 with no delay, and returns 10 on success.
C18_Defaults ==
    defaulted =>
        /\ batch_size = BATCH_SIZE
        /\ batch_delay = BATCH_DELAY
        /\ \A i \in DOMAIN posts :
              posts[i].json = SubSeq(records, (i - 1) * BATCH_SIZE + 1,
                                     Min(i * BATCH_SIZE, Len(records)))
        /\ \A i \in DOMAIN sleeps : sleeps[i] = BATCH_DELAY
        /\ (pc = "done" /\ webhook_url \notin {"", "None"}) =>
              /\ Len(posts) = CeilDiv(Len(records), BATCH_SIZE)
              /\ Len(sleeps) = Max(Len(posts) - 1, 0)
              /\ result = SumLenWhere(Len(outcomes),
                                      {o \in Outcomes : Raised(o) = "none"}, outcomes)
              /\ Len(records) = ScenarioLen =>
                    /\ Len(posts) = 1
                    /\ posts[1].json = records
                    /\ sleeps = <<>>
                    /\ Is2xx(outcomes[1]) => result = ScenarioLen

\* The longer list sent with the defaults: one POST of all its records,
\* answered 200, no delay, all counted.
C18_Witness ==
    /\ defaulted
    /\ pc = "done"
    /\ records = ScenarioRecords
    /\ Len(posts) = 1
    /\ Len(posts[1].json) = ScenarioLen
    /\ outcomes = <<[exc |-> "none", status |-> 200]>>
    /\ sleeps = <<>>
    /\ result = ScenarioLen

\* The number of batches of a call that delivers.
NumBatches == IF Delivering /\ Len(records) > 0
              THEN CeilDiv(Len(records), batch_size) ELSE 0

\* C19: what a POST ended in has no effect on what the call does next: the
\* POSTs sent and the delays taken are a function of the arguments and of how
\* many POSTs have ended, never of how they ended, so two calls with the same
\* arguments send the same bodies and take the same delays; the step after a
\* POST is the same one for every outcome.
C19_OutcomeIndependent ==
    /\ [](/\ Len(posts) = Len(outcomes) + (IF pc = "sending" THEN 1 ELSE 0)
          /\ \A i \in DOMAIN posts :
                /\ batch_size > 0
                /\ posts[i].url = webhook_url
                /\ posts[i].json = SubSeq(records, (i - 1) * batch_size + 1,
                                          Min(i * batch_size, Len(records)))
          /\ Len(sleeps) = Min(Len(outcomes), Max(NumBatches - 1, 0))
          /\ \A i \in DOMAIN sleeps : sleeps[i] = batch_delay
          /\ pc = "done" => Len(posts) = NumBatches)
    /\ [][pc = "sending" =>
            /\ pc' = (IF Len(posts) < NumBatches THEN "sleeping" ELSE "loop")
            /\ posts' = posts
            /\ batch_num' = batch_num]_vars

\* A completed call of three batches whose POSTs ended differently: a
\* success, a connection error, an error status.
C19_Witness ==
    /\ pc = "done"
    /\ Len(posts) = 3
    /\ Len(sleeps) = 2
    /\ Is2xx(outcomes[1])
    /\ outcomes[2].exc = "ConnectionError"
    /\ outcomes[3] = [exc |-> "none", status |-> 400]

\* C20: the delay is a fixed pacing delay: when the POST of a batch that is
\* not the last ends, in success or in failure, the call suspends for
\* batch_delay, the argument's value, and the next POST is issued only after
\* that delay; after the last batch it takes no delay.
C20_FixedPacing ==
    [][/\ (pc = "sending" /\ batch_num < Len(batches)) =>
              (pc' = "sleeping" /\ sleeps' = Append(sleeps, batch_delay))
       /\ (pc = "sending" /\ batch_num >= Len(batches)) =>
              (pc' = "loop" /\ sleeps' = sleeps)
       /\ pc # "sending" => sleeps' = sleeps
       /\ (pc' = "sending" /\ batch_num >= 1) =>
              (pc = "loop" /\ Len(sleeps) = batch_num)
       /\ batch_delay' = batch_delay]_vars

\* The call suspended for the second time: once after a batch that succeeded
\* and once after a batch that failed, both for the default delay.
C20_Witness ==
    /\ pc = "sleeping"
    /\ batch_delay = BATCH_DELAY
    /\ Len(outcomes) = 2
    /\ Raised(outcomes[1]) = "none"
    /\ Raised(outcomes[2]) # "none"
    /\ sleeps = <<BATCH_DELAY, BATCH_DELAY>>


\* C21: every request the call issues is one POST to the caller's endpoint
\* whose body is the whole batch as one JSON array, with the header
\* Content-Type: application/json and a timeout of 30 seconds; there is one
\* such request per batch taken and no request of another shape.
C21_RequestShape ==
    /\ Len(posts) = batch_num
    /\ \A i \in DOMAIN posts :
           /\ posts[i].method = "POST"
           /\ posts[i].url = webhook_url
           /\ posts[i].json = batches[i]
           /\ posts[i].content_type = "application/json"
           /\ posts[i].timeout = 30
           /\ DOMAIN posts[i] =
                  {"method", "url", "json", "timeout", "content_type", "batch_num"}

\* Two requests of a finished call over three records in batches of two.
C21_Witness ==
    /\ pc = "done"
    /\ records = <<"r1", "r2", "r1">>
    /\ batch_size = 2
    /\ Len(posts) = 2
    /\ posts[2].json = <<"r1">>
    /\ posts[2].url = "http://x"
    /\ posts[2].timeout = 30

\* C25: with records and an endpoint, a batch_size <= 0 issues no POST: for
\* batch_size = 0 the call ends in an error (range's ValueError) before any
\* request, for batch_size < 0 the batch list is empty and the call returns 0.
C25_NonPositiveBatchSize ==
    (Len(records) > 0 /\ webhook_url \notin {"", "None"} /\ batch_size <= 0) =>
        /\ posts = <<>>
        /\ batches = <<>>
        /\ batch_size = 0 =>
               /\ pc \in {"not_started", "raised"}
               /\ pc = "raised" => raised = "ValueError"
        /\ batch_size < 0 =>
               /\ pc \in {"not_started", "loop", "done"}
               /\ raised = "none"
               /\ pc = "done" => result = 0

\* The call with batch_size = 0 ended in the ValueError.
C25_Witness ==
    /\ Len(records) = 2
    /\ webhook_url = "http://x"
    /\ batch_size = 0
    /\ pc = "raised"
    /\ raised = "ValueError"

\* The call with batch_size = -1 returned 0.
C25_WitnessNegative ==
    /\ Len(records) = 2
    /\ webhook_url = "http://x"
    /\ batch_size = -1
    /\ pc = "done"
    /\ result = 0
    /\ total_records = 2

\* C22: with limit = 0 and a server that answers every request with the full
\* pages of each product and its accurate totalCount, the list discover_apps
\* returns holds every app of every product, those that appear only on a later
\* page of a later product included.
C22_AllAppsDiscovered ==
    (scraper = "microsoft" /\ server.honest /\ limit = 0 /\ phase = "returned") =>
        \A k \in DOMAIN DYNAMICS_PRODUCTS : SetOf(server.catalog[k]) \subseteq SetOf(urls)

\* C23: the list a discovery returns (discover_app_urls of NetSuite, Acumatica
\* and HubSpot, fetch_all_app_urls of Shopify, discover_apps of Microsoft)
\* holds no URL or app id twice, whatever the server's pages repeat.
C23_NoDuplicates ==
    (/\ phase = "returned"
     /\ scraper \in {"netsuite", "acumatica", "hubspot", "shopify", "microsoft"}) =>
        \A i, j \in DOMAIN urls : urls[i] = urls[j] => i = j

\* Shopify returned two URLs from two sitemaps that list u1 three times.
C23_Witness ==
    /\ scraper = "shopify"
    /\ phase = "returned"
    /\ Len(page_requests) = 2
    /\ page_requests[1].links = <<"u1", "u1">>
    /\ page_requests[2].links = <<"u1", "u2">>
    /\ Len(urls) = 2

\* Microsoft returned two apps after two products whose pages show a1 three
\* times.
C23_WitnessMicrosoft ==
    /\ scraper = "microsoft"
    /\ phase = "returned"
    /\ ~server.honest
    /\ product = 2
    /\ total_count = MaxTotal
    /\ urls = <<"a1", "a2">>

\* C24: a discovery called with limit > 0 returns at most limit entries, and
\* one called with limit = 0 returns everything it collected, untruncated.
C24_LimitHonoured ==
    (phase = "returned" /\ scraper \in {"netsuite", "acumatica", "hubspot", "microsoft"}) =>
        LET collected == IF scraper = "microsoft" THEN SetOf(all_apps) ELSE discovered_urls
        IN  /\ limit > 0 => Len(urls) <= limit
            /\ limit > 0 => Len(urls) = Min(limit, Cardinality(collected))
            /\ limit = 0 => SetOf(urls) = collected /\ Len(urls) = Cardinality(collected)

\* HubSpot collected two URLs from one page under limit = 1 and returned one.
C24_Witness ==
    /\ scraper = "hubspot"
    /\ phase = "returned"
    /\ limit = 1
    /\ Cardinality(discovered_urls) = 2
    /\ Len(urls) = 1

\* NetSuite under limit = 0 returned all three URLs it collected.
C24_WitnessUnlimited ==
    /\ scraper = "netsuite"
    /\ phase = "returned"
    /\ limit = 0
    /\ Cardinality(discovered_urls) = 3
    /\ Len(urls) = 3

\* The URLs collected by the first n page requests.
CollectedBy(n) == UNION {page_requests[j].new : j \in 1 .. n}

\* The i-th page request succeeded, gave a URL not collected before and left
\* the collection short of a limit > 0.
Continues(i) ==
    /\ page_requests[i].exc = "none"
    /\ page_requests[i].new \ CollectedBy(i - 1) # {}
    /\ ~(limit > 0 /\ Cardinality(CollectedBy(i)) >= limit)

\* C28: discover_app_urls of NetSuite and Acumatica makes at most MAX_PAGES
\* page requests, the i-th for page i (no page is requested twice, so a failed
\* request is not retried); it goes on to the next page exactly after a page
\* that gave new URLs short of the limit, so it stops at the first page without
\* a new URL, the first failed request, or once limit > 0 URLs are collected;
\* and it returns.
C28_BoundedPaging ==
    /\ [](scraper \in {"netsuite", "acumatica"} =>
             /\ Len(page_requests) <= MAX_PAGES(scraper)
             /\ \A i \in DOMAIN page_requests : page_requests[i].page = i
             /\ \A i \in 1 .. (Len(page_requests) - 1) : Continues(i)
             /\ (phase = "discover" /\ page_requests # <<>>) =>
                    /\ Continues(Len(page_requests))
                    /\ page = Len(page_requests) + 1
             /\ (phase # "discover" /\ Len(page_requests) < MAX_PAGES(scraper)) =>
                    /\ page_requests # <<>>
                    /\ ~Continues(Len(page_requests))
             /\ discovered_urls = CollectedBy(Len(page_requests)))
    /\ (scraper \in {"netsuite", "acumatica"} /\ phase = "discover") ~> (phase = "returned")

\* Acumatica returned after using up all MAX_PAGES page requests.
C28_Witness ==
    /\ scraper = "acumatica"
    /\ phase = "returned"
    /\ Len(page_requests) = MAX_PAGES("acumatica")
    /\ Len(urls) = 3

\* NetSuite stopped at a failed second page request.
C28_WitnessFailure ==
    /\ scraper = "netsuite"
    /\ phase = "returned"
    /\ Len(page_requests) = 2
    /\ page_requests[2].exc = "RequestException"
    /\ Len(urls) = 1

\* C29: the pagination of discover_apps (Microsoft) comes to an end, and the
\* function returns, for every sequence of API responses and every limit >= 0,
\* a server that keeps returning full pages of apps already seen under a
\* totalCount above the number of apps collected included.
C29_DiscoverAppsTerminates ==
    (scraper = "microsoft" /\ phase = "discover") ~> (phase = "returned")

\* C30: scrape_via_html (Microsoft) returns for every sequence of responses
\* and every limit >= 0, a server that returns a page with matching app cards
\* for every page number included.
C30_ScrapeViaHtmlTerminates ==
    (scraper = "microsoft_html" /\ phase = "discover") ~> (phase = "returned")

\* C26: in every scraper's main the results file is written before any webhook
\* POST is made, and push_to_clay is called at most once per run, and only
\* when CLAY_WEBHOOK_URL is set and not empty; it is handed the records that
\* were saved.
C26_SaveThenPushOnce ==
    /\ posts # <<>> => saved_file.written
    /\ push_calls <= 1
    /\ (pc # "uncalled") = (push_calls = 1)
    /\ push_calls > 0 =>
           /\ clay_webhook_url \notin {"", "None"}
           /\ saved_file.written
           /\ webhook_url = clay_webhook_url
           /\ records = saved_file.records

\* HubSpot's main returned after saving two records and one POST of them.
C26_Witness ==
    /\ scraper = "hubspot"
    /\ phase = "exited"
    /\ saved_file = [written |-> TRUE, records |-> <<"u1", "u2">>]
    /\ push_calls = 1
    /\ Len(posts) = 1
    /\ posts[1].json = <<"u1", "u2">>

\* Salesforce's main returned after saving, with CLAY_WEBHOOK_URL set to the
\* empty string and no call of push_to_clay.
C26_WitnessNoPush ==
    /\ scraper = "salesforce"
    /\ phase = "exited"
    /\ clay_webhook_url = ""
    /\ saved_file = [written |-> TRUE, records |-> <<"u1">>]
    /\ push_calls = 0
    /\ pc = "uncalled"

\* The URLs of the first n scrape calls that gave a record, in order.
RECURSIVE Scraped(_, _)
Scraped(n, log) ==
    IF n = 0 THEN <<>>
    ELSE IF log[n].outcome = "record" THEN Append(Scraped(n - 1, log), log[n].url)
    ELSE Scraped(n - 1, log)

\* C27: in the per-URL loop of main (Salesforce, NetSuite) a failed request or
\* an unparseable page yields no record and does not abort the loop: the URLs
\* are attempted once each in list order, all of them once the loop is over,
\* and records holds the successfully parsed results in URL order.
C27_LoopSurvivesFailures ==
    scraper \in {"salesforce", "netsuite"} =>
        /\ Len(attempts) <= Len(urls)
        /\ \A i \in DOMAIN attempts : attempts[i].url = urls[i]
        /\ phase = "scrape" => main_records = Scraped(Len(attempts), attempts)
        /\ phase # "scrape" => Len(attempts) = Len(urls)
        /\ saved_file.written => saved_file.records = Scraped(Len(urls), attempts)
====
